---- MODULE Spec2Model ----
(***************************************************************************)
(* Model of solve_pickups_multitrip (src/solver.py): guests are assigned   *)
(* to trip slots, slots to vehicles, and the CP-SAT search returns one     *)
(* assignment satisfying the constraints that minimises                    *)
(* total_wait + trip_penalty * (number of used slots).                     *)
(*                                                                         *)
(* Python lists are 0-indexed: guest i is guests[i+1], vehicle k has       *)
(* capacity vehicle_caps[k+1]; slots m and vehicles k keep the source's    *)
(* 0-based numbers.  A row of solver booleans (x[i][.], z[m][.]) is the    *)
(* set of indices whose boolean is 1.  The display name of a guest is      *)
(* copied through unchanged by the source and is left out.                 *)
(***************************************************************************)
EXTENDS Integers, Sequences, FiniteSets

VARIABLES guests, params, pc, vehicle_caps, status, sol, result, prev

vars == <<guests, params, pc, vehicle_caps, status, sol, result, prev>>

(* An Optional[...] parameter: Nothing is Python's None, Some(v) a given value *)
Nothing == <<>>
Some(v) == <<v>>
Given(o) == o # Nothing
Value(o) == o[1]

(* ------------------------------ bounds -------------------------------- *)
MaxGuests == 2
MaxArrival == 1

(* Inputs the calls are drawn from. *)
CarCounts == {1, 2}
Capacities == {0, 1, 2}
WaitBounds == {0, 1}
RoundTrips == {0, 1, 2}
(* a list shorter than num_cars is filled up, a longer one is cut *)
CapacityLists == {<<1>>, <<2, 1, 0>>}
VehicleIndexInputs == {-1, 0, 1}
HorizonInputs == {0}
(* guest ids are 1..n, 0 names no guest: an unknown and a known guest, one
   guest twice, two guests *)
IdPairInputs == {<<0, 1>>, <<1, 1>>, <<1, 2>>}

(* ------------------------------ helpers ------------------------------- *)
Min(S) == CHOOSE v \in S : \A w \in S : v <= w
Max(S) == CHOOSE v \in S : \A w \in S : v >= w

RECURSIVE SumSeq(_)
SumSeq(s) == IF s = <<>> THEN 0 ELSE s[1] + SumSeq(Tail(s))

RECURSIVE SumSet(_, _)
SumSet(f, S) ==
    IF S = {} THEN 0
    ELSE LET e == CHOOSE e \in S : TRUE IN f[e] + SumSet(f, S \ {e})

(* All sequences s of length d with s[j+1] \in opts[j], as functions on 0..d-1 *)
RECURSIVE SeqChoices(_, _)
SeqChoices(opts, d) ==
    IF d = 0 THEN {<<>>}
    ELSE LET last == opts[d - 1]
         IN  {Append(s, v) : s \in SeqChoices(opts, d - 1), v \in last}

FunChoices(opts, d) == {[j \in 0..(d - 1) |-> s[j + 1]] : s \in SeqChoices(opts, d)}

Ind(b) == IF b THEN 1 ELSE 0

(* sorted(seq, key=...) / list.sort(key=...): a stable sort of records by the
   integer field named key *)
RECURSIVE InsertByKey(_, _, _)
InsertByKey(s, e, key) ==
    IF s = <<>> THEN <<e>>
    ELSE IF e[key] < s[Len(s)][key]
         THEN Append(InsertByKey(SubSeq(s, 1, Len(s) - 1), e, key), s[Len(s)])
         ELSE Append(s, e)

RECURSIVE SortByKey(_, _)
SortByKey(s, key) ==
    IF s = <<>> THEN <<>>
    ELSE InsertByKey(SortByKey(SubSeq(s, 1, Len(s) - 1), key), s[Len(s)], key)

(* --------------------------- instance data ---------------------------- *)
NumGuests(g) == Len(g)
GuestIdx(g) == 0..(Len(g) - 1)
SlotIdx(g) == 0..(Len(g) - 1)
VehicleIdx(p) == 0..(p.num_cars - 1)
Arrival(g, i) == g[i + 1].arrival_min
Arrivals(g) == {g[j].arrival_min : j \in 1..Len(g)}
(* faulty variant: takes the first guest's arrival, as if the list were sorted *)
MinA_FirstGuest(g) == g[1].arrival_min
MinA(g) == Min(Arrivals(g))
MaxA(g) == Max(Arrivals(g))

Horizon(g, p) ==
    IF Given(p.time_horizon_min)
    THEN Value(p.time_horizon_min)
    ELSE MaxA(g) + p.max_wait_min + p.round_trip_min

BIG_NEG == -10000
BigOffset == 10000
BIG_POS(g, p) == Horizon(g, p) + BigOffset
TotalWaitCap == 10000000
trip_penalty == 1

KnownId(g, gid) == \E j \in 1..Len(g) : g[j].guest_id = gid
(* dict comprehension: a later guest with the same id overwrites an earlier one *)
IdToI(g, gid) == Max({j \in 1..Len(g) : g[j].guest_id = gid}) - 1

NormalizedCaps(p) ==
    LET K == p.num_cars
        raw == IF Given(p.vehicle_capacities)
               THEN Value(p.vehicle_capacities)
               ELSE [k \in 1..K |-> p.capacity_per_car]
    IN  IF Len(raw) < K
        THEN raw \o [k \in 1..(K - Len(raw)) |-> p.capacity_per_car]
        ELSE IF Len(raw) > K THEN SubSeq(raw, 1, K)
        ELSE raw

(* faulty variant: lets a capacity of 0 pass *)
CapsValid_ZeroAllowed(caps) == \A k \in 1..Len(caps) : caps[k] >= 0
CapsValid(caps) == \A k \in 1..Len(caps) : caps[k] >= 1

(* getattr(params, "incompatible_pairs", []) or []: None and [] are both <<>> *)
IncompatiblePairs(p) == p.incompatible_pairs

TogetherRule(p) == Value(p.must_ride_together_in_vehicle)
HasTogetherRule(p) == Given(p.must_ride_together_in_vehicle)

RuleIdsKnown(g, p) ==
    KnownId(g, TogetherRule(p).guest_id_a) /\ KnownId(g, TogetherRule(p).guest_id_b)

RuleVehicleInRange(p) ==
    0 <= TogetherRule(p).vehicle_index /\ TogetherRule(p).vehicle_index < p.num_cars

(* ------------------- the constraint model (CpModel) ------------------- *)
(* the locals of the call (lines 42-98) *)
Locals(g, p, caps) ==
    [K |-> p.num_cars,
     W |-> p.max_wait_min,
     RT |-> p.round_trip_min,
     vehicle_caps |-> caps,
     min_a |-> MinA(g),
     max_a |-> MaxA(g),
     horizon |-> Horizon(g, p),
     BIG_POS |-> BIG_POS(g, p),
     n |-> NumGuests(g),
     M |-> NumGuests(g)]

(* faulty variant: at most one trip per guest, a guest may be left behind *)
AssignedOnce_AtMostOne(row) == Cardinality(row) <= 1

(* 1) each guest is assigned to exactly one trip *)
AssignedOnce(row) == Cardinality(row) = 1

XCandidates(g) ==
    FunChoices([i \in GuestIdx(g) |-> {row \in SUBSET SlotIdx(g) : AssignedOnce(row)}],
               Len(g))

trip_load(g, x, m) == Cardinality({i \in GuestIdx(g) : m \in x[i]})

(* 2) used[m] is linked to the load of slot m *)
UsedLinked(g, x, m, u) ==
    /\ \A i \in GuestIdx(g) : m \in x[i] => u = 1
    /\ u = 1 => trip_load(g, x, m) >= 1
    /\ u = 0 => trip_load(g, x, m) = 0

UsedCandidates(g, x) ==
    FunChoices([m \in SlotIdx(g) |-> {u \in {0, 1} : UsedLinked(g, x, m, u)}], Len(g))

(* a used trip is served by exactly one vehicle, an unused one by none *)
VehicleAssigned(zr, u) == Cardinality(zr) = u

(* faulty variant: bounds the load by the capacity of vehicle 0 whatever the
   vehicle chosen *)
CapacityOK_FirstVehicle(caps, load, zr) == load <= Cardinality(zr) * caps[1]

(* the load is at most the capacity of the chosen vehicle *)
CapacityOK(caps, load, zr) == load <= SumSet([k \in zr |-> caps[k + 1]], zr)

ZCandidates(g, c, x, used) ==
    FunChoices([m \in SlotIdx(g) |->
                   {zr \in SUBSET (0..(c.K - 1)) :
                       /\ VehicleAssigned(zr, used[m])
                       /\ CapacityOK(c.vehicle_caps, trip_load(g, x, m), zr)}],
               Len(g))

(* masked arrivals: a guest outside the slot contributes a sentinel *)
vmin(g, c, x, i, m) == IF m \in x[i] THEN Arrival(g, i) ELSE c.BIG_POS
vmax(g, c, x, i, m) == IF m \in x[i] THEN Arrival(g, i) ELSE BIG_NEG

(* faulty variant: the dummy term is min_a for a used slot too *)
dummy_min_Unmasked(c, used, m) == c.min_a

(* an unused slot is pinned to min_a, a used one contributes a sentinel *)
dummy_min(c, used, m) == IF used[m] = 0 THEN c.min_a ELSE c.BIG_POS
dummy_max(c, used, m) == IF used[m] = 0 THEN c.min_a ELSE BIG_NEG

min_arr(g, c, x, used, m) ==
    Min({vmin(g, c, x, i, m) : i \in GuestIdx(g)} \cup {dummy_min(c, used, m)})

max_arr(g, c, x, used, m) ==
    Max({vmax(g, c, x, i, m) : i \in GuestIdx(g)} \cup {dummy_max(c, used, m)})

(* leave when the last assigned guest arrives *)
dep(g, c, x, used, m) == max_arr(g, c, x, used, m)

(* the values of the integer variables of the slots under x and used *)
SlotValues(g, c, x, used) ==
    [min_arr |-> [m \in SlotIdx(g) |-> min_arr(g, c, x, used, m)],
     max_arr |-> [m \in SlotIdx(g) |-> max_arr(g, c, x, used, m)],
     dep |-> [m \in SlotIdx(g) |-> dep(g, c, x, used, m)]]

(* the declared domains of the integer variables of slot m *)
SlotDomainsOK(g, c, x, used, v, m) ==
    /\ \A i \in GuestIdx(g) :
          /\ c.min_a <= vmin(g, c, x, i, m) /\ vmin(g, c, x, i, m) <= c.BIG_POS
          /\ BIG_NEG <= vmax(g, c, x, i, m) /\ vmax(g, c, x, i, m) <= c.max_a
    /\ c.min_a <= dummy_min(c, used, m) /\ dummy_min(c, used, m) <= c.BIG_POS
    /\ BIG_NEG <= dummy_max(c, used, m) /\ dummy_max(c, used, m) <= c.max_a
    /\ c.min_a <= v.min_arr[m] /\ v.min_arr[m] <= c.BIG_POS
    /\ BIG_NEG <= v.max_arr[m] /\ v.max_arr[m] <= c.max_a
    /\ c.min_a <= v.dep[m] /\ v.dep[m] <= c.horizon
    /\ c.min_a <= v.dep[m] + c.RT /\ v.dep[m] + c.RT <= c.horizon + c.RT

(* if used, the arrival spread is at most W *)
WaitBoundOK(c, used, v, m) == used[m] = 1 => v.max_arr[m] - v.min_arr[m] <= c.W

(* 3) incompatible guests are never in the same trip; a pair naming an
      unknown guest id is skipped *)
IncompatibleOK(g, p, x) ==
    \A j \in 1..Len(IncompatiblePairs(p)) :
        LET gid1 == IncompatiblePairs(p)[j][1]
            gid2 == IncompatiblePairs(p)[j][2]
        IN  (KnownId(g, gid1) /\ KnownId(g, gid2)) =>
                \A m \in SlotIdx(g) :
                    Ind(m \in x[IdToI(g, gid1)]) + Ind(m \in x[IdToI(g, gid2)]) <= 1

(* 4) the two guests of the rule share every slot ... *)
TogetherSameTrip(g, p, x) ==
    HasTogetherRule(p) =>
        \A m \in SlotIdx(g) :
            (m \in x[IdToI(g, TogetherRule(p).guest_id_a)])
                <=> (m \in x[IdToI(g, TogetherRule(p).guest_id_b)])

(* faulty variant: the slot of the two guests is served by some vehicle, not
   necessarily the one the rule names *)
TogetherVehicle_AnyVehicle(g, p, x, z) ==
    HasTogetherRule(p) =>
        \A m \in SlotIdx(g) :
            m \in x[IdToI(g, TogetherRule(p).guest_id_a)] => z[m] # {}

(*    ... and that slot is served by the named vehicle *)
TogetherVehicle(g, p, x, z) ==
    HasTogetherRule(p) =>
        \A m \in SlotIdx(g) :
            m \in x[IdToI(g, TogetherRule(p).guest_id_a)]
                => TogetherRule(p).vehicle_index \in z[m]

(* faulty variant: the intervals are one minute short, [dep[m], dep[m] + RT - 1) *)
NoOverlap_OneShort(g, c, v, z, k) ==
    \A m1, m2 \in SlotIdx(g) :
        (m1 # m2 /\ k \in z[m1] /\ k \in z[m2]) =>
            \/ v.dep[m1] + c.RT - 1 <= v.dep[m2]
            \/ v.dep[m2] + c.RT - 1 <= v.dep[m1]

(* 5) AddNoOverlap over the optional intervals [dep[m], dep[m] + RT) of the
      slots served by vehicle k: any two present intervals are ordered *)
NoOverlap(g, c, v, z, k) ==
    \A m1, m2 \in SlotIdx(g) :
        (m1 # m2 /\ k \in z[m1] /\ k \in z[m2]) =>
            \/ v.dep[m1] + c.RT <= v.dep[m2]
            \/ v.dep[m2] + c.RT <= v.dep[m1]

(* faulty variant: dep_guest_i is not tied to the departure of guest i's slot *)
DepGuestCandidates_Untied(g, c, x, v) ==
    FunChoices([i \in GuestIdx(g) |-> c.min_a..c.horizon], Len(g))

(* 6) dep_guest_i equals the departure of every slot guest i is in *)
DepGuestCandidates(g, c, x, v) ==
    FunChoices([i \in GuestIdx(g) |->
                   {d \in c.min_a..c.horizon : \A m \in x[i] : d = v.dep[m]}],
               Len(g))

wait(g, dep_guest, i) == dep_guest[i] - Arrival(g, i)

total_wait(g, dep_guest) ==
    SumSet([i \in GuestIdx(g) |-> wait(g, dep_guest, i)], GuestIdx(g))

WaitDomainsOK(g, c, dep_guest) ==
    /\ \A i \in GuestIdx(g) :
          0 <= wait(g, dep_guest, i) /\ wait(g, dep_guest, i) <= c.horizon - c.min_a
    /\ 0 <= total_wait(g, dep_guest) /\ total_wait(g, dep_guest) <= TotalWaitCap

(* the values the solver reports for one assignment *)
Solution(g, x, used, z, v, dep_guest) ==
    [x |-> x, used |-> used, z |-> z,
     dep |-> v.dep, min_arr |-> v.min_arr, max_arr |-> v.max_arr,
     waits |-> [i \in GuestIdx(g) |-> wait(g, dep_guest, i)],
     total_wait |-> total_wait(g, dep_guest)]

(* constraints on x and used alone *)
AssignmentOK(g, p, c, x, used, v) ==
    /\ \A m \in SlotIdx(g) : SlotDomainsOK(g, c, x, used, v, m) /\ WaitBoundOK(c, used, v, m)
    /\ IncompatibleOK(g, p, x)
    /\ TogetherSameTrip(g, p, x)

(* faulty variant: the trips of a vehicle are not kept apart *)
VehiclesOK_NoIntervals(g, p, c, x, v, z) == TogetherVehicle(g, p, x, z)

(* constraints that also read the vehicle assignment *)
VehiclesOK(g, p, c, x, v, z) ==
    /\ TogetherVehicle(g, p, x, z)
    /\ \A k \in 0..(c.K - 1) : NoOverlap(g, c, v, z, k)

(* the assignments extending x and used, whose slot values are v *)
SolutionsOf(g, p, c, x, used, v) ==
    IF ~AssignmentOK(g, p, c, x, used, v) THEN {}
    ELSE UNION {
           {Solution(g, x, used, z, v, dg) :
                dg \in {dg \in DepGuestCandidates(g, c, x, v) : WaitDomainsOK(g, c, dg)}}
           : z \in {z \in ZCandidates(g, c, x, used) : VehiclesOK(g, p, c, x, v, z)}}

(* every assignment of the variables that satisfies the model *)
FeasibleSolutions(g, p, caps) ==
    UNION {UNION {UNION {UNION {SolutionsOf(g, p, c, x, used, v)
                                  : v \in {SlotValues(g, c, x, used)}}
                           : used \in UsedCandidates(g, x)}
                    : x \in XCandidates(g)}
             : c \in {Locals(g, p, caps)}}

(* faulty variant: the trips are not counted *)
Objective_WaitOnly(g, s) == s.total_wait

(* Minimize(total_wait + trip_penalty * sum(used)) *)
Objective(g, s) == s.total_wait + trip_penalty * SumSet(s.used, SlotIdx(g))

OptimalSolutions(g, F) ==
    LET best == Min({Objective(g, s) : s \in F})
    IN  {s \in F : Objective(g, s) = best}

(* ------------------------- the plan (lines 230-275) -------------------- *)
(* the first vehicle k whose z[m][k] is 1 *)
VehicleOf(p, s, m) == Min({k \in VehicleIdx(p) : k \in s.z[m]})
HasVehicle(p, s, m) == \E k \in VehicleIdx(p) : k \in s.z[m]

AssignedGuests(g, s, m) ==
    LET InSlot(i) == m \in s.x[i]
        idx == SelectSeq([j \in 1..Len(g) |-> j - 1], InSlot)
    IN  [j \in 1..Len(idx) |->
            [guest_id |-> g[idx[j] + 1].guest_id,
             arrival_min |-> g[idx[j] + 1].arrival_min,
             wait_min |-> s.waits[idx[j]]]]

TripOut(g, p, caps, s, m) ==
    [trip_index |-> m,
     vehicle_index |-> IF HasVehicle(p, s, m) THEN Some(VehicleOf(p, s, m)) ELSE Nothing,
     vehicle_capacity |-> IF HasVehicle(p, s, m) THEN Some(caps[VehicleOf(p, s, m) + 1])
                          ELSE Nothing,
     departure_min |-> s.dep[m],
     min_arrival_min |-> s.min_arr[m],
     max_arrival_min |-> s.max_arr[m],
     num_guests |-> Len(AssignedGuests(g, s, m)),
     guests |-> SortByKey(AssignedGuests(g, s, m), "arrival_min")]

EmittedSlot(s, m) == s.used[m] # 0

TripsOut(g, p, caps, s) ==
    LET Emitted(m) == EmittedSlot(s, m)
        slots == SelectSeq([j \in 1..Len(g) |-> j - 1], Emitted)
    IN  SortByKey([j \in 1..Len(slots) |-> TripOut(g, p, caps, s, slots[j])],
                  "departure_min")

Plan(g, p, caps, s) ==
    LET trips_out == TripsOut(g, p, caps, s)
    IN
    [status |-> "ok",
     num_guests |-> Len(g),
     num_vehicles |-> p.num_cars,
     vehicle_capacities |-> caps,
     max_wait_min |-> p.max_wait_min,
     round_trip_min |-> p.round_trip_min,
     num_trips_used |-> Len(trips_out),
     total_wait_min |-> s.total_wait,
     trips |-> trips_out]

EmptyPlan(p) ==
    [status |-> "ok", num_guests |-> 0, num_vehicles |-> p.num_cars,
     total_wait_min |-> 0, num_trips_used |-> 0, trips |-> <<>>]

InfeasibleResult == [status |-> "infeasible"]
NoResult == [status |-> "none"]
NoSolution == [total_wait |-> 0]
NoCaps == <<>>

(* what a caller keeps of an earlier answer *)
TripPartition(r) ==
    {{r.trips[t].guests[j].guest_id : j \in 1..Len(r.trips[t].guests)} :
        t \in 1..Len(r.trips)}

Summary(r, st) ==
    [status |-> r.status,
     solver_status |-> st,
     total_wait_min |-> IF r.status = "ok" THEN r.total_wait_min ELSE 0,
     num_trips_used |-> IF r.status = "ok" THEN r.num_trips_used ELSE 0,
     partition |-> IF r.status = "ok" THEN TripPartition(r) ELSE {}]

NoSummary ==
    [status |-> "none", solver_status |-> "NONE", total_wait_min |-> 0,
     num_trips_used |-> 0, partition |-> {}]

(* ------------------------------ inputs -------------------------------- *)
GuestList(a) == [j \in 1..Len(a) |-> [guest_id |-> j, arrival_min |-> a[j]]]

GuestLists ==
    UNION {{GuestList(a) : a \in [1..n -> 0..MaxArrival]} : n \in 0..MaxGuests}

BaseParams ==
    [num_cars : CarCounts,
     capacity_per_car : Capacities,
     max_wait_min : WaitBounds,
     round_trip_min : RoundTrips,
     time_horizon_min : {Nothing},
     vehicle_capacities : {Nothing},
     incompatible_pairs : {<<>>},
     must_ride_together_in_vehicle : {Nothing}]

(* the calls that give an optional parameter have a round trip of 0 or 1 *)
ShortParams == {b \in BaseParams : b.round_trip_min <= 1}

(* a call gives at most one of the optional parameters *)
ParamInputs ==
    BaseParams
    \cup {[b EXCEPT !.vehicle_capacities = Some(c)] : b \in ShortParams, c \in CapacityLists}
    \cup {[b EXCEPT !.time_horizon_min = Some(h)] : b \in ShortParams, h \in HorizonInputs}
    \cup {[b EXCEPT !.incompatible_pairs = <<pr>>] : b \in ShortParams, pr \in IdPairInputs}
    \cup {[b EXCEPT !.must_ride_together_in_vehicle =
                Some([guest_id_a |-> q[1], guest_id_b |-> q[2], vehicle_index |-> k0])] :
            b \in ShortParams, q \in IdPairInputs, k0 \in VehicleIndexInputs}

(* calls that pin guest 1 to a vehicle and keep guests 1 and 2 apart *)
RulePairParamInputs ==
    {[b EXCEPT !.incompatible_pairs = <<<<1, 2>>>>,
               !.must_ride_together_in_vehicle =
                   Some([guest_id_a |-> 1, guest_id_b |-> 1, vehicle_index |-> k0])] :
        b \in ShortParams, k0 \in CarCounts}

(* calls that give only an incompatible pair of two guests *)
PairParamInputs == {[b EXCEPT !.incompatible_pairs = <<<<1, 2>>>>] : b \in ShortParams}

(* Scenario B: four guests at minute 0, one car of capacity 2, no waiting *)
ScenarioBGuests == GuestList(<<0, 0, 0, 0>>)

ScenarioBParams(rt) ==
    [num_cars |-> 1, capacity_per_car |-> 2, max_wait_min |-> 0, round_trip_min |-> rt,
     time_horizon_min |-> Nothing, vehicle_capacities |-> Nothing,
     incompatible_pairs |-> <<>>, must_ride_together_in_vehicle |-> Nothing]

IsScenarioB == guests = ScenarioBGuests /\ params = ScenarioBParams(params.round_trip_min)

Orderings(n) == {f \in [1..n -> 1..n] : \A a, b \in 1..n : f[a] = f[b] => a = b}

(* ------------------------------ actions ------------------------------- *)
Init ==
    /\ \/ guests \in GuestLists /\ params \in ParamInputs \cup RulePairParamInputs
       \/ guests = ScenarioBGuests /\ params \in {ScenarioBParams(rt) : rt \in RoundTrips}
    /\ pc = "start"
    /\ vehicle_caps = NoCaps
    /\ status = "NONE"
    /\ sol = NoSolution
    /\ result = NoResult
    /\ prev = NoSummary

(* lines 32-40: no guests, no trips *)
ReturnEmpty ==
    /\ pc = "start"
    /\ guests = <<>>
    /\ result' = EmptyPlan(params)
    /\ pc' = "done"
    /\ UNCHANGED <<guests, params, vehicle_caps, status, sol, prev>>

(* lines 60-62 *)
RaiseCapacity ==
    /\ pc = "start"
    /\ guests # <<>>
    /\ ~CapsValid(NormalizedCaps(params))
    /\ result' = [status |-> "error", error |-> "vehicle_capacities must be >= 1"]
    /\ pc' = "raised"
    /\ UNCHANGED <<guests, params, vehicle_caps, status, sol, prev>>

(* lines 176-177 *)
RaiseGuestIds ==
    /\ pc = "start"
    /\ guests # <<>>
    /\ CapsValid(NormalizedCaps(params))
    /\ HasTogetherRule(params)
    /\ ~RuleIdsKnown(guests, params)
    /\ result' = [status |-> "error",
                  error |-> "must_ride_together_in_vehicle guest ids not found"]
    /\ pc' = "raised"
    /\ UNCHANGED <<guests, params, vehicle_caps, status, sol, prev>>

(* lines 180-181 *)
RaiseVehicleIndex ==
    /\ pc = "start"
    /\ guests # <<>>
    /\ CapsValid(NormalizedCaps(params))
    /\ HasTogetherRule(params)
    /\ RuleIdsKnown(guests, params)
    /\ ~RuleVehicleInRange(params)
    /\ result' = [status |-> "error", error |-> "vehicle_index out of range"]
    /\ pc' = "raised"
    /\ UNCHANGED <<guests, params, vehicle_caps, status, sol, prev>>

(* lines 42-275: the capacities are normalised, the model is built and
   searched, and the answer is built.  The search ends with a proved optimum
   (OPTIMAL), with a proof that no assignment exists (INFEASIBLE), or, cut
   short by the time limit, with the assignment found so far (FEASIBLE) or
   with none (UNKNOWN) *)
SolveModel ==
    /\ pc = "start"
    /\ guests # <<>>
    /\ CapsValid(NormalizedCaps(params))
    /\ (HasTogetherRule(params)
          => (RuleIdsKnown(guests, params) /\ RuleVehicleInRange(params)))
    /\ vehicle_caps' = NormalizedCaps(params)
    /\ \E F \in {FeasibleSolutions(guests, params, vehicle_caps')} :
           \/ \E s \in OptimalSolutions(guests, F) : status' = "OPTIMAL" /\ sol' = s
           \/ \E s \in F : status' = "FEASIBLE" /\ sol' = s
           \/ F = {} /\ status' = "INFEASIBLE" /\ sol' = NoSolution
           \/ status' = "UNKNOWN" /\ sol' = NoSolution
    /\ result' = IF status' \in {"OPTIMAL", "FEASIBLE"}
                 THEN Plan(guests, params, vehicle_caps', sol')
                 ELSE InfeasibleResult
    /\ pc' = "done"
    /\ UNCHANGED <<guests, params, prev>>

(* a caller whose call ended with a completed search or an error asks again
   with the same guests in another order; nothing of the earlier call is
   kept by the solver *)
SolveReordered ==
    /\ pc \in {"done", "raised"}
    /\ status \notin {"FEASIBLE", "UNKNOWN"}
    /\ \E f \in Orderings(Len(guests)) :
          guests' = [j \in 1..Len(guests) |-> guests[f[j]]]
    /\ prev' = Summary(result, status)
    /\ pc' = "start"
    /\ vehicle_caps' = NoCaps
    /\ status' = "NONE"
    /\ sol' = NoSolution
    /\ result' = NoResult
    /\ UNCHANGED params

Next ==
    \/ ReturnEmpty
    \/ RaiseCapacity
    \/ RaiseGuestIds
    \/ RaiseVehicleIndex
    \/ SolveModel

Spec == Init /\ [][Next]_vars

(* the same calls, each possibly followed by calls with the guests reordered *)
NextReordered ==
    \/ ReturnEmpty
    \/ RaiseCapacity
    \/ SolveModel
    \/ SolveReordered

InitReordered ==
    /\ guests \in GuestLists
    /\ params \in BaseParams \cup PairParamInputs
    /\ pc = "start"
    /\ vehicle_caps = NoCaps
    /\ status = "NONE"
    /\ sol = NoSolution
    /\ result = NoResult
    /\ prev = NoSummary

SpecReordered == InitReordered /\ [][NextReordered]_vars

(* ======================= reference definitions ======================== *)
(* What the claims speak of, stated over guest ids and plans directly.     *)
GuestIds(g) == {g[j].guest_id : j \in 1..Len(g)}
ArrivalOf(g, gid) == g[CHOOSE j \in 1..Len(g) : g[j].guest_id = gid].arrival_min

(* capacity of vehicle k (1-based here): the given list, cut to num_cars
   entries and filled up with capacity_per_car *)
ExpectedCaps(p) ==
    [k \in 1..p.num_cars |->
        IF Given(p.vehicle_capacities) /\ k <= Len(Value(p.vehicle_capacities))
        THEN Value(p.vehicle_capacities)[k]
        ELSE p.capacity_per_car]

InvalidCaps(p) == \E k \in 1..p.num_cars : ExpectedCaps(p)[k] < 1

InvalidRule(g, p) ==
    /\ Given(p.must_ride_together_in_vehicle)
    /\ \/ Value(p.must_ride_together_in_vehicle).guest_id_a \notin GuestIds(g)
       \/ Value(p.must_ride_together_in_vehicle).guest_id_b \notin GuestIds(g)
       \/ Value(p.must_ride_together_in_vehicle).vehicle_index \notin 0..(p.num_cars - 1)

(* the partitions of the guests into trips *)
Partitions(g) ==
    {{{gid \in GuestIds(g) : f[gid] = b} : b \in {f[gid] : gid \in GuestIds(g)}} :
        f \in [GuestIds(g) -> 1..Len(g)]}

TripDeparture(g, b) == Max({ArrivalOf(g, gid) : gid \in b})
TripSpread(g, b) == TripDeparture(g, b) - Min({ArrivalOf(g, gid) : gid \in b})
TripInterval(g, p, b) == TripDeparture(g, b)..(TripDeparture(g, b) + p.round_trip_min - 1)

(* the hard constraints on the trips alone: wait bound, incompatible pairs
   of known guests, the two guests of the grouping rule together *)
TripsValid(g, p, P) ==
    /\ \A b \in P : TripSpread(g, b) <= p.max_wait_min
    /\ \A j \in 1..Len(p.incompatible_pairs) :
          ({p.incompatible_pairs[j][1], p.incompatible_pairs[j][2]} \subseteq GuestIds(g)) =>
              ~\E b \in P :
                  {p.incompatible_pairs[j][1], p.incompatible_pairs[j][2]} \subseteq b
    /\ Given(p.must_ride_together_in_vehicle) =>
          \E b \in P :
              /\ Value(p.must_ride_together_in_vehicle).guest_id_a \in b
              /\ Value(p.must_ride_together_in_vehicle).guest_id_b \in b

(* the hard constraints on the vehicles of the trips: capacity, no two trips
   of a vehicle at once, the vehicle named by the grouping rule *)
FleetValid(g, p, plan) ==
    /\ \A b \in DOMAIN plan : Cardinality(b) <= ExpectedCaps(p)[plan[b] + 1]
    /\ \A b1, b2 \in DOMAIN plan :
          (b1 # b2 /\ plan[b1] = plan[b2]) =>
              TripInterval(g, p, b1) \cap TripInterval(g, p, b2) = {}
    /\ Given(p.must_ride_together_in_vehicle) =>
          \A b \in DOMAIN plan :
              Value(p.must_ride_together_in_vehicle).guest_id_a \in b
                  => plan[b] = Value(p.must_ride_together_in_vehicle).vehicle_index

(* a plan gives every trip of a partition its vehicle; the plans that
   satisfy the hard constraints *)
ValidPlans(g, p) ==
    UNION {{plan \in [P -> 0..(p.num_cars - 1)] : FleetValid(g, p, plan)} :
              P \in {P \in Partitions(g) : TripsValid(g, p, P)}}

PlanWait(g, plan) ==
    SumSet([gid \in GuestIds(g) |->
               TripDeparture(g, CHOOSE b \in DOMAIN plan : gid \in b) - ArrivalOf(g, gid)],
           GuestIds(g))

PlanTrips(plan) == Cardinality(DOMAIN plan)

(* an incompatible pair of two guests of the call *)
BothKnown(pr) == {pr[1], pr[2]} \subseteq GuestIds(guests)

(* the answer of the call *)
Answered == pc = "done"
AnsweredOk == pc = "done" /\ result.status = "ok"
SearchCompleted == status \in {"OPTIMAL", "INFEASIBLE"}
TripIdx == 1..Len(result.trips)
TripGuestIds(t) == {t.guests[j].guest_id : j \in 1..Len(t.guests)}
TripArrivals(t) == {t.guests[j].arrival_min : j \in 1..Len(t.guests)}
TripBusy(t) == t.departure_min..(t.departure_min + result.round_trip_min - 1)

(* the returned trips as a plan *)
ResultPlan == [b \in TripPartition(result) |->
                  Value((CHOOSE t \in {result.trips[j] : j \in TripIdx} :
                             TripGuestIds(t) = b).vehicle_index)]

(* ============================== claims ================================ *)

(* C1 (as stated): a plan returned by a completed search has the least total
   wait of all valid plans, and the fewest trips among the plans of that
   total wait. *)
C1_WaitFirst ==
    (AnsweredOk /\ status = "OPTIMAL") =>
        \A plan \in ValidPlans(guests, params) :
            /\ result.total_wait_min <= PlanWait(guests, plan)
            /\ PlanWait(guests, plan) = result.total_wait_min
                  => result.num_trips_used <= PlanTrips(plan)

(* C1 (amended): a plan returned by a completed search is a valid plan and
   has the least sum total_wait_min + num_trips_used of all valid plans; a
   minute of wait and a trip weigh the same. *)
C1_MinimalObjective ==
    (AnsweredOk /\ status = "OPTIMAL") =>
        \E V \in {ValidPlans(guests, params)} :
            /\ ResultPlan \in V
            /\ \A plan \in V :
                  result.total_wait_min + result.num_trips_used
                      <= PlanWait(guests, plan) + PlanTrips(plan)

(* a completed search returned a plan of more total wait than another valid
   plan, which uses more trips *)
C1_Witness ==
    /\ AnsweredOk /\ status = "OPTIMAL"
    /\ \E plan \in ValidPlans(guests, params) :
          /\ PlanWait(guests, plan) < result.total_wait_min
          /\ PlanTrips(plan) > result.num_trips_used

(* C2: in a returned plan no two trips of one vehicle are under way at the
   same minute: their [departure_min, departure_min + round_trip_min) do not
   intersect. *)
C2_VehicleNonOverlap ==
    AnsweredOk =>
        \A i, j \in TripIdx :
            (i # j /\ result.trips[i].vehicle_index = result.trips[j].vehicle_index) =>
                TripBusy(result.trips[i]) \cap TripBusy(result.trips[j]) = {}

C2_Witness ==
    /\ AnsweredOk
    /\ result.num_guests > 0
    /\ result.round_trip_min >= 1
    /\ \E i, j \in TripIdx :
          /\ i # j
          /\ result.trips[i].vehicle_index = result.trips[j].vehicle_index
          /\ result.trips[i].departure_min # result.trips[j].departure_min

(* C3: in a returned plan every input guest is listed exactly once, in
   exactly one trip, no trip is empty, and num_trips_used is the number of
   slots that hold a guest. *)
C3_Partition ==
    AnsweredOk =>
        /\ \A gid \in GuestIds(guests) :
              Cardinality({<<i, j>> \in TripIdx \X (1..Len(guests)) :
                              /\ j <= Len(result.trips[i].guests)
                              /\ result.trips[i].guests[j].guest_id = gid}) = 1
        /\ \A i \in TripIdx :
              /\ Len(result.trips[i].guests) >= 1
              /\ TripGuestIds(result.trips[i]) \subseteq GuestIds(guests)
        /\ result.num_trips_used = Len(result.trips)
        /\ result.num_trips_used
              = Cardinality({m \in SlotIdx(guests) : \E i \in GuestIdx(guests) : m \in sol.x[i]})

C3_Witness ==
    /\ AnsweredOk
    /\ result.num_trips_used >= 2
    /\ \E i \in TripIdx : Len(result.trips[i].guests) >= 2

(* C4: in a returned plan every trip has one vehicle index in
   0..num_cars-1, its vehicle_capacity is the capacity of that vehicle, and
   it carries at most that many guests. *)
C4_Capacity ==
    AnsweredOk =>
        \A i \in TripIdx :
            LET t == result.trips[i]
            IN  /\ Given(t.vehicle_index)
                /\ Value(t.vehicle_index) \in 0..(params.num_cars - 1)
                /\ t.vehicle_capacity = Some(ExpectedCaps(params)[Value(t.vehicle_index) + 1])
                /\ t.num_guests = Len(t.guests)
                /\ t.num_guests <= Value(t.vehicle_capacity)

(* a full trip on the larger of two vehicles of different capacities *)
C4_Witness ==
    /\ AnsweredOk
    /\ params.num_cars = 2
    /\ ExpectedCaps(params)[1] < ExpectedCaps(params)[2]
    /\ \E i \in TripIdx :
          /\ result.trips[i].vehicle_index = Some(1)
          /\ result.trips[i].num_guests = ExpectedCaps(params)[2]
          /\ result.trips[i].num_guests > ExpectedCaps(params)[1]

(* C5: in a returned plan min_arrival_min and max_arrival_min of a trip are
   the earliest and the latest arrival among its guests, and they are at
   most max_wait_min apart. *)
C5_WaitBound ==
    AnsweredOk =>
        \A i \in TripIdx :
            LET t == result.trips[i]
            IN  /\ t.min_arrival_min = Min(TripArrivals(t))
                /\ t.max_arrival_min = Max(TripArrivals(t))
                /\ t.max_arrival_min - t.min_arrival_min <= params.max_wait_min

(* a trip whose guests arrive at different minutes, exactly max_wait_min
   apart: the bound is met with equality *)
C5_Witness ==
    /\ AnsweredOk
    /\ params.max_wait_min >= 1
    /\ \E i \in TripIdx :
          /\ result.trips[i].min_arrival_min < result.trips[i].max_arrival_min
          /\ result.trips[i].max_arrival_min - result.trips[i].min_arrival_min
                = params.max_wait_min

(* C6: in a returned plan a trip departs at its max_arrival_min, a guest
   waits from arrival to the departure of the trip that lists the guest, and
   total_wait_min is the sum of the guests' waits. *)
C6_DepartureConsistency ==
    AnsweredOk =>
        /\ \A i \in TripIdx :
              LET t == result.trips[i]
              IN  /\ t.departure_min = t.max_arrival_min
                  /\ \A j \in 1..Len(t.guests) :
                        /\ t.guests[j].wait_min = t.departure_min - t.guests[j].arrival_min
                        /\ t.guests[j].wait_min >= 0
        /\ result.total_wait_min
              = SumSeq([i \in TripIdx |->
                           SumSeq([j \in 1..Len(result.trips[i].guests) |->
                                      result.trips[i].guests[j].wait_min])])

C6_Witness ==
    /\ AnsweredOk
    /\ result.total_wait_min >= 1
    /\ result.num_trips_used >= 1

(* C7: in a returned plan the two guests of a grouping rule that names known
   guests and a vehicle in range are in one trip and that trip has the
   vehicle the rule names; no incompatible pair of two known guests is in
   one trip. *)
C7_GroupingAndIncompatibility ==
    AnsweredOk =>
        /\ (Given(params.must_ride_together_in_vehicle) /\ ~InvalidRule(guests, params)) =>
              \E i \in TripIdx :
                  /\ Value(params.must_ride_together_in_vehicle).guest_id_a
                        \in TripGuestIds(result.trips[i])
                  /\ Value(params.must_ride_together_in_vehicle).guest_id_b
                        \in TripGuestIds(result.trips[i])
                  /\ result.trips[i].vehicle_index
                        = Some(Value(params.must_ride_together_in_vehicle).vehicle_index)
        /\ \A j \in 1..Len(params.incompatible_pairs) :
              ({params.incompatible_pairs[j][1], params.incompatible_pairs[j][2]}
                    \subseteq GuestIds(guests)) =>
                  \A i \in TripIdx :
                      ~({params.incompatible_pairs[j][1], params.incompatible_pairs[j][2]}
                            \subseteq TripGuestIds(result.trips[i]))

(* guest 1 is pinned to the second vehicle and kept apart from guest 2 *)
C7_Witness ==
    /\ AnsweredOk
    /\ Len(guests) = 2
    /\ params.incompatible_pairs = <<<<1, 2>>>>
    /\ Given(params.must_ride_together_in_vehicle)
    /\ Value(params.must_ride_together_in_vehicle).vehicle_index = 1
    /\ result.num_trips_used = 2

(* C8 (as stated): Scenario B with a positive round trip, searched to the
   end, returns two trips of two guests each on vehicle 0 that do not
   overlap. *)
C8_ScenarioBOk ==
    (IsScenarioB /\ Answered /\ SearchCompleted /\ params.round_trip_min > 0) =>
        /\ result.status = "ok"
        /\ Len(result.trips) = 2
        /\ \A i \in TripIdx :
              result.trips[i].num_guests = 2 /\ result.trips[i].vehicle_index = Some(0)
        /\ TripBusy(result.trips[1]) \cap TripBusy(result.trips[2]) = {}

(* C8 (amended): Scenario B with a positive round trip is answered
   "infeasible", both trips would leave at minute 0 on the one vehicle; with
   round_trip_min = 0 a completed search returns two trips of two guests
   each, and every trip of a returned plan is on vehicle 0 and leaves at 0. *)
C8_ScenarioB ==
    (IsScenarioB /\ Answered) =>
        /\ params.round_trip_min > 0 => result.status = "infeasible"
        /\ (params.round_trip_min = 0 /\ SearchCompleted) =>
              /\ result.status = "ok"
              /\ Len(result.trips) = 2
              /\ \A i \in TripIdx : result.trips[i].num_guests = 2
        /\ result.status = "ok" =>
              /\ params.round_trip_min = 0
              /\ \A i \in TripIdx :
                    /\ result.trips[i].vehicle_index = Some(0)
                    /\ result.trips[i].departure_min = 0

C8_Witness ==
    /\ IsScenarioB /\ Answered
    /\ params.round_trip_min > 0
    /\ status = "INFEASIBLE"
    /\ result.status = "infeasible"

(* C9 (as stated): a call with the guests reordered, both searches
   completed, gives the same status, the same total_wait_min and the same
   partition of the guests into trips. *)
C9_SameAnswer ==
    (pc \in {"done", "raised"} /\ prev.status # "none"
       /\ prev.solver_status \notin {"FEASIBLE", "UNKNOWN"}
       /\ status \notin {"FEASIBLE", "UNKNOWN"}) =>
        /\ result.status = prev.status
        /\ Summary(result, status).total_wait_min = prev.total_wait_min
        /\ Summary(result, status).partition = prev.partition

(* C9 (amended): a call with the guests reordered, both searches completed,
   gives the same status and the same sum total_wait_min + num_trips_used;
   the total wait and the partition may differ between optimal plans. *)
C9_SameObjective ==
    (pc \in {"done", "raised"} /\ prev.status # "none"
       /\ prev.solver_status \notin {"FEASIBLE", "UNKNOWN"}
       /\ status \notin {"FEASIBLE", "UNKNOWN"}) =>
        /\ result.status = prev.status
        /\ Summary(result, status).total_wait_min + Summary(result, status).num_trips_used
              = prev.total_wait_min + prev.num_trips_used

(* two completed searches of the same guests, the later given latest guest
   first, that return different partitions *)
C9_Witness ==
    /\ AnsweredOk /\ status = "OPTIMAL"
    /\ prev.status = "ok" /\ prev.solver_status = "OPTIMAL"
    /\ Len(guests) >= 2
    /\ guests[1].arrival_min > guests[2].arrival_min
    /\ TripPartition(result) # prev.partition

(* the call gives incompatible pairs, and each names an unknown guest *)
UnknownPairsOnly ==
    /\ params.incompatible_pairs # <<>>
    /\ \A j \in 1..Len(params.incompatible_pairs) : ~BothKnown(params.incompatible_pairs[j])

(* the answer is one the call without its incompatible pairs can give: the
   empty plan for no guests, an error for a capacity or a grouping rule it
   rejects; otherwise a returned plan is a valid plan of that call, a
   completed search returns a plan of its least objective, and finds none
   only when it has none *)
AnswerOfCallWithoutPairs ==
    LET q == [params EXCEPT !.incompatible_pairs = <<>>]
    IN  IF guests = <<>>
        THEN pc = "done" /\ result.status = "ok" /\ result.trips = <<>>
        ELSE IF InvalidCaps(q) \/ InvalidRule(guests, q)
        THEN pc = "raised" /\ result.status = "error"
        ELSE /\ pc = "done"
             /\ \E V \in {ValidPlans(guests, q)} :
                   /\ result.status = "ok" => ResultPlan \in V
                   /\ status = "OPTIMAL" =>
                         \A plan \in V :
                             result.total_wait_min + result.num_trips_used
                                 <= PlanWait(guests, plan) + PlanTrips(plan)
                   /\ status = "INFEASIBLE" => V = {}

(* C10 (as stated): whatever the guest list, a capacity below 1 or a
   grouping rule naming an unknown guest or a vehicle out of range ends the
   call with an error and no answer; an incompatible pair naming an unknown
   guest raises nothing and leaves the answer what it is without the pair. *)
C10_ValidationFirst ==
    pc # "start" =>
        /\ (InvalidCaps(params) \/ InvalidRule(guests, params)) =>
              pc = "raised" /\ result.status = "error"
        /\ UnknownPairsOnly => AnswerOfCallWithoutPairs

(* C10 (amended): for a call with at least one guest, a capacity below 1 or
   a grouping rule naming an unknown guest or a vehicle out of range ends the
   call with an error and no answer; a call with no guests is answered with
   the empty plan whatever its parameters; an incompatible pair naming an
   unknown guest raises nothing and leaves the answer what it is without the
   pair. *)
C10_Validation ==
    pc # "start" =>
        /\ guests # <<>> =>
              ((InvalidCaps(params) \/ InvalidRule(guests, params)) =>
                    pc = "raised" /\ result.status = "error")
        /\ guests = <<>> =>
              /\ pc = "done" /\ result.status = "ok"
              /\ result.num_trips_used = 0 /\ result.total_wait_min = 0
              /\ result.trips = <<>>
        /\ UnknownPairsOnly => AnswerOfCallWithoutPairs

(* a call with guests and a grouping rule that names a vehicle out of range *)
C10_Witness ==
    /\ guests # <<>>
    /\ pc = "raised"
    /\ ~InvalidCaps(params)
    /\ Given(params.must_ride_together_in_vehicle)
    /\ {Value(params.must_ride_together_in_vehicle).guest_id_a,
        Value(params.must_ride_together_in_vehicle).guest_id_b} \subseteq GuestIds(guests)

====
